---- MODULE Spec2Model ----
(***************************************************************************)
(* The QOI chunk encoder of src/main.rs: the loop of main() over the input *)
(* words, with the colour cache (Encountered), the chunk list (Chunks) and *)
(* the previous pixel.  A 32-bit input word is kept as its two 16-bit      *)
(* halves, [hi, lo], because the word 0xFFAFAFAF does not fit the model    *)
(* checker's integers; every other quantity is an ordinary integer.        *)
(***************************************************************************)
EXTENDS Integers, Sequences, FiniteSets

\* ------------------------------------------------------------------ bounds
\* Number of input words the loop consumes under Spec.
MaxPixels == 5
\* Number of input words the loop consumes under SpecLong.
LongLen == 258
\* Number of input words the loop consumes under SpecExample.
ExampleLen == 12
\* Number of input words the loop consumes under SpecHash.
HashLen == 2

\* ------------------------------------------------------- program constants
\* const BYTE_SIZE: u8 = 8
BYTE_SIZE == 8
\* [RGBA; 64]
CacheSize == 64
\* the largest value of a u8 field
U8Max == 255
\* "6-bit run-length repeating the previous pixel: 1..62"
MaxRun == 62

\* ------------------------------------------------------------------ pixels
\* struct RGBA
RGBA(r, g, b, a) == [r |-> r, g |-> g, b |-> b, a |-> a]

\* RGBA::new(): opaque black
RGBA_new == RGBA(0, 0, 0, 255)

\* A u32 word as its high and low 16-bit halves.
Word(hi, lo) == [hi |-> hi, lo |-> lo]

\* (value >> n * BYTE_SIZE) & 0xFF, for n in 0..3
ShiftMask(value, n) ==
    LET half  == IF n * BYTE_SIZE >= 16 THEN value.hi ELSE value.lo
        shift == (n * BYTE_SIZE) % 16
    IN  (half \div (2 ^ shift)) % 256

\* impl From<&u32> for RGBA: r is the low byte, a the high byte
RGBA_from(value) ==
    RGBA(ShiftMask(value, 0), ShiftMask(value, 1), ShiftMask(value, 2), ShiftMask(value, 3))

\* Mutant of RGBA::hash: the alpha channel left out of the sum.
hash_noalpha(color) ==
    LET index == color.r * 3 + color.g * 5 + color.b * 7
    IN  (index % CacheSize) % (U8Max + 1)

\* RGBA::hash: each channel widened to u32 before it is multiplied, so the sum
\* (at most 255 * 26 = 6630) never wraps; then % 64, then the cast to u8.
hash(color) ==
    LET index == color.r * 3 + color.g * 5 + color.b * 7 + color.a * 11
    IN  (index % CacheSize) % (U8Max + 1)

\* ------------------------------------------------------------------ chunks
\* Mutant of QoiOpRun::new: the run starts at 0.
QoiOpRun_new_zero == [op |-> "Run", tag |-> "B11", run |-> 0]

\* QoiOpRun::new(): tag b11, run 1
QoiOpRun_new == [op |-> "Run", tag |-> "B11", run |-> 1]

\* QoiOpRun::add_run(): self.run += 1 on a u8.  Past 255 a debug build panics
\* ("attempt to add with overflow") and a release build wraps to 0: both outcomes.
add_run(chunk) ==
    IF chunk.run + 1 <= U8Max
    THEN {[chunk |-> [chunk EXCEPT !.run = chunk.run + 1], panic |-> FALSE]}
    ELSE {[chunk |-> [chunk EXCEPT !.run = (chunk.run + 1) % (U8Max + 1)], panic |-> FALSE],
          [chunk |-> chunk, panic |-> TRUE]}

\* Mutant of QoiOpIndex::from_rgba: the index QoiOpIndex::new() gives, 0.
QoiOpIndex_from_rgba_zero(color) == [op |-> "Index", tag |-> "B00", index |-> 0]

\* QoiOpIndex::from_rgba(): tag b00, index color.hash()
QoiOpIndex_from_rgba(color) == [op |-> "Index", tag |-> "B00", index |-> hash(color)]

\* Mutant of QoiOpRGBA::from_rgba: red and blue exchanged.
QoiOpRGBA_from_rgba_bgr(color) ==
    [op |-> "RGBA", tag |-> "B11111111",
     red |-> color.b, green |-> color.g, blue |-> color.r, alpha |-> color.a]

\* Mutant of QoiOpRGBA::from_rgba: an RGB chunk, the alpha dropped.
QoiOpRGBA_from_rgba_noalpha(color) ==
    [op |-> "RGB", tag |-> "B11111110",
     red |-> color.r, green |-> color.g, blue |-> color.b]

\* QoiOpRGBA::from_rgba(): tag b11111111 and the four channels
QoiOpRGBA_from_rgba(color) ==
    [op |-> "RGBA", tag |-> "B11111111",
     red |-> color.r, green |-> color.g, blue |-> color.b, alpha |-> color.a]

\* Chunks::new(): an empty Vec
Chunks_new == <<>>

\* Mutant of Chunks::push: the chunk is put in front.
Chunks_push_front(list, op) == <<op>> \o list

\* Chunks::push()
Chunks_push(list, op) == Append(list, op)

\* ------------------------------------------------------------- colour cache
\* Encountered::new(): 64 copies of RGBA::new()
Encountered_new == [i \in 0 .. CacheSize - 1 |-> RGBA_new]

\* Encountered::contains(): the array's contains, a search of all 64 slots
Encountered_contains(cache, color) == color \in {cache[i] : i \in 0 .. CacheSize - 1}

\* Mutant of Encountered::set: the slot after the colour's is written.
Encountered_set_shift(cache, color) ==
    [cache EXCEPT ![(hash(color) + 1) % CacheSize] = color]

\* Mutant of Encountered::set: a slot that is already in use is not overwritten.
Encountered_set_keep(cache, color) ==
    IF cache[hash(color)] = RGBA_new THEN [cache EXCEPT ![hash(color)] = color] ELSE cache

\* Encountered::set(): slot color.hash() becomes the colour
Encountered_set(cache, color) == [cache EXCEPT ![hash(color)] = color]

\* ------------------------------------------------------------------- state
VARIABLES
    pixels,       \* the input words the loop of main() has consumed, in order
    chunks,       \* Chunks: the Vec<QoiOps>
    encountered,  \* Encountered: the 64 cache slots
    previous,     \* the previous pixel
    setlog,       \* history: the colours passed to Encountered::set, in order
    panicked      \* the program aborted on an arithmetic overflow

vars == <<pixels, chunks, encountered, previous, setlog, panicked>>

\* main(), lines 257-260: empty chunk list, fresh cache, default previous pixel
Init ==
    /\ pixels = <<>>
    /\ chunks = Chunks_new
    /\ encountered = Encountered_new
    /\ previous = RGBA_new
    /\ setlog = <<>>
    /\ panicked = FALSE

\* ----------------------------------------------------------------- actions
\* main(), lines 261-262: the loop takes the next input word; a panic ended the program
Consume(pixel) ==
    /\ ~panicked
    /\ pixels' = Append(pixels, pixel)

\* main(), lines 264-270: the pixel equals the previous one.  With an empty chunk
\* list (last_mut() is None) nothing happens; a last chunk that is a Run is
\* incremented; after any other chunk a new Run of 1 is pushed.
RunBranch(pixel) ==
    LET rgba == RGBA_from(pixel)
    IN  /\ Consume(pixel)
        /\ rgba = previous
        /\ IF chunks = <<>>
           THEN /\ chunks' = chunks
                /\ panicked' = panicked
           ELSE IF chunks[Len(chunks)].op = "Run"
           THEN \E o \in add_run(chunks[Len(chunks)]) :
                    /\ chunks' = [chunks EXCEPT ![Len(chunks)] = o.chunk]
                    /\ panicked' = o.panic
           ELSE /\ chunks' = Chunks_push(chunks, QoiOpRun_new)
                /\ panicked' = panicked
        /\ UNCHANGED <<encountered, previous, setlog>>

\* Mutant of the index branch: previous is not updated.
IndexBranch_stale(pixel) ==
    LET rgba == RGBA_from(pixel)
    IN  /\ Consume(pixel)
        /\ rgba # previous
        /\ Encountered_contains(encountered, rgba)
        /\ chunks' = Chunks_push(chunks, QoiOpIndex_from_rgba(rgba))
        /\ UNCHANGED <<encountered, previous, setlog, panicked>>

\* main(), lines 271-273: the cache contains the pixel: an Index chunk
IndexBranch(pixel) ==
    LET rgba == RGBA_from(pixel)
    IN  /\ Consume(pixel)
        /\ rgba # previous
        /\ Encountered_contains(encountered, rgba)
        /\ chunks' = Chunks_push(chunks, QoiOpIndex_from_rgba(rgba))
        /\ previous' = rgba
        /\ UNCHANGED <<encountered, setlog, panicked>>

\* main(), lines 274-279: otherwise the pixel is stored and an RGBA chunk pushed
MissBranch(pixel) ==
    LET rgba == RGBA_from(pixel)
    IN  /\ Consume(pixel)
        /\ rgba # previous
        /\ ~Encountered_contains(encountered, rgba)
        /\ encountered' = Encountered_set(encountered, rgba)
        /\ setlog' = Append(setlog, rgba)
        /\ chunks' = Chunks_push(chunks, QoiOpRGBA_from_rgba(rgba))
        /\ previous' = rgba
        /\ UNCHANGED panicked

\* ------------------------------------------------------------------ inputs
\* 0xFF000000: the default pixel (0,0,0,255), bucket 53
WDefault == Word(65280, 0)
\* 0xFF000040: (64,0,0,255), also bucket 53
WCollide == Word(65280, 64)
\* 0xFF004000: (0,64,0,255), also bucket 53
WCollide2 == Word(65280, 16384)
\* 0xFFAFAFAF and 0xFFAAAFAF: the two colours of the array in main()
WAF == Word(65455, 44975)
WAA == Word(65450, 44975)
\* 0xFE000000: (0,0,0,254), the default colour with another alpha
WAlpha == Word(65024, 0)
\* 0xFF010101: (1,1,1,255), one above the default pixel in every colour channel
WDiff == Word(65281, 257)

Palette == {WDefault, WCollide, WCollide2, WAF, WAlpha, WDiff}

\* Any input over the palette, up to MaxPixels words.
Next ==
    \E pixel \in Palette :
        \/ (Len(pixels) < MaxPixels /\ RunBranch(pixel))
        \/ (Len(pixels) < MaxPixels /\ IndexBranch(pixel))
        \/ (Len(pixels) < MaxPixels /\ MissBranch(pixel))

Spec == Init /\ [][Next]_vars

\* Long inputs: the first colour of the array in main() repeated, then the
\* default pixel repeated (at most one change of colour), up to LongLen words.
LongInput(pixel) ==
    /\ Len(pixels) < LongLen
    /\ IF pixels = <<>> THEN pixel = WAF
       ELSE IF pixels[Len(pixels)] = WAF THEN TRUE
       ELSE pixel = WDefault

NextLong ==
    \E pixel \in {WAF, WDefault} :
        \/ (LongInput(pixel) /\ RunBranch(pixel))
        \/ (LongInput(pixel) /\ IndexBranch(pixel))
        \/ (LongInput(pixel) /\ MissBranch(pixel))

SpecLong == Init /\ [][NextLong]_vars

\* The array of main(), lines 252-255: 0xFFAFAFAF three times, 0xFFAAAFAF, then
\* 0xFFAFAFAF eight times.
ExamplePixels == <<WAF, WAF, WAF, WAA, WAF, WAF, WAF, WAF, WAF, WAF, WAF, WAF>>

\* Every input over the two colours of that array, up to ExampleLen words.
NextExample ==
    \E pixel \in {WAF, WAA} :
        \/ (Len(pixels) < ExampleLen /\ RunBranch(pixel))
        \/ (Len(pixels) < ExampleLen /\ IndexBranch(pixel))
        \/ (Len(pixels) < ExampleLen /\ MissBranch(pixel))

SpecExample == Init /\ [][NextExample]_vars

\* A grid of colours for the hash: every channel at its ends and in the middle.
HashPalette ==
    {Word(a * 256 + b, g * 256 + r) : r \in {0, 128, 255}, g \in {0, 128, 255},
                                      b \in {0, 128, 255}, a \in {128, 255}}

\* Every input over the grid, up to HashLen words.
NextHash ==
    \E pixel \in HashPalette :
        \/ (Len(pixels) < HashLen /\ RunBranch(pixel))
        \/ (Len(pixels) < HashLen /\ IndexBranch(pixel))
        \/ (Len(pixels) < HashLen /\ MissBranch(pixel))

SpecHash == Init /\ [][NextHash]_vars

\* ----------------------------------------------------------------- decoder
\* The chunk decoder (no decoder exists in src/main.rs): a Run of N repeats the
\* previous pixel N times and touches no cache slot; an Index chunk reads its slot
\* and stores nothing; every other chunk rebuilds the pixel and stores it.
Wrap8(x) == x % (U8Max + 1)

DecodePixel(chunk, cache, prev) ==
    CASE chunk.op = "Index" -> cache[chunk.index]
      [] chunk.op = "Diff"  -> RGBA(Wrap8(prev.r + chunk.dr - 2), Wrap8(prev.g + chunk.dg - 2),
                                    Wrap8(prev.b + chunk.db - 2), prev.a)
      [] chunk.op = "Luma"  -> RGBA(Wrap8(prev.r + (chunk.dg - 32) + (chunk.dr_dg - 8)),
                                    Wrap8(prev.g + (chunk.dg - 32)),
                                    Wrap8(prev.b + (chunk.dg - 32) + (chunk.db_dg - 8)), prev.a)
      [] chunk.op = "RGB"   -> RGBA(chunk.red, chunk.green, chunk.blue, prev.a)
      [] chunk.op = "RGBA"  -> RGBA(chunk.red, chunk.green, chunk.blue, chunk.alpha)

RECURSIVE DecodeFrom(_, _, _, _, _)
DecodeFrom(list, k, cache, prev, out) ==
    IF k > Len(list) THEN out
    ELSE IF list[k].op = "Run"
    THEN DecodeFrom(list, k + 1, cache, prev, out \o [i \in 1 .. list[k].run |-> prev])
    ELSE LET px == DecodePixel(list[k], cache, prev)
             nc == IF list[k].op = "Index" THEN cache ELSE [cache EXCEPT ![hash(px)] = px]
         IN  DecodeFrom(list, k + 1, nc, px, Append(out, px))

\* Decoding from a fresh cache and the default previous pixel.
Decode(list) == DecodeFrom(list, 1, Encountered_new, RGBA_new, <<>>)

\* The pixels the loop has consumed, as RGBA values.
Consumed == [i \in 1 .. Len(pixels) |-> RGBA_from(pixels[i])]

\* ------------------------------------------------------------------ claims
\* C1 (as claimed): decoding the chunk list the loop has emitted for the input
\* consumed so far yields exactly that input: same length, same pixels, same order.
C1_RoundTrip == Decode(chunks) = Consumed

\* Whether input pixel i equals the pixel before it (the default pixel before the first).
Repeats(i) == RGBA_from(pixels[i]) = (IF i = 1 THEN RGBA_new ELSE RGBA_from(pixels[i - 1]))

Max(S) == CHOOSE x \in S : \A y \in S : y <= x

\* The length of the run the input consumed so far ends with: the number of
\* trailing pixels that each repeat the pixel before them.
TrailingRun ==
    Len(pixels) - Max({0} \cup {i \in 1 .. Len(pixels) : ~Repeats(i)})

\* The Run chunks the chunk list ends with.
TrailingRunChunks ==
    LET j == Max({0} \cup {i \in 1 .. Len(chunks) : chunks[i].op # "Run"})
    IN  SubSeq(chunks, j + 1, Len(chunks))

RECURSIVE SumRuns(_)
SumRuns(list) == IF list = <<>> THEN 0 ELSE list[1].run + SumRuns(Tail(list))

\* C2 (as claimed): every Run chunk has a length in 1..62, and a run of L > 62
\* pixels equal to the previous pixel is encoded as ceil(L/62) Run chunks whose
\* lengths sum to L.
C2_RunBounding ==
    /\ \A i \in 1 .. Len(chunks) : chunks[i].op = "Run" => chunks[i].run \in 1 .. MaxRun
    /\ TrailingRun > MaxRun =>
          /\ Len(TrailingRunChunks) = (TrailingRun + MaxRun - 1) \div MaxRun
          /\ SumRuns(TrailingRunChunks) = TrailingRun

\* C3 (as claimed): Encountered::contains(p) is true exactly when the cache slot
\* at index hash(p) holds p, for every colour of the input alphabet.
C3_LookupContract ==
    \A pixel \in Palette :
        LET p == RGBA_from(pixel)
        IN  Encountered_contains(encountered, p) <=> (encountered[hash(p)] = p)

\* The bucket of a colour as the format defines it, over unbounded integers.
Bucket(p) == (p.r * 3 + p.g * 5 + p.b * 7 + p.a * 11) % 64

\* The last input pixel consumed (the default pixel before the first).
LastInput == IF pixels = <<>> THEN RGBA_new ELSE RGBA_from(pixels[Len(pixels)])

\* The loop has just consumed the input word `pixel` in this step.
Stepped(pixel) == pixels' = Append(pixels, pixel)

\* No colour other than p with p's bucket was stored since p was last stored
\* (since the start, when p was never stored).
NoCollisionSince(p) ==
    LET last == Max({0} \cup {i \in 1 .. Len(setlog) : setlog[i] = p})
    IN  \A j \in last + 1 .. Len(setlog) :
            ~(setlog[j] # p /\ Bucket(setlog[j]) = Bucket(p))

\* C4: a step for a pixel P that differs from the previous pixel, was processed
\* earlier, and whose bucket took no other colour since P was last stored, appends
\* exactly one chunk, an Index chunk carrying hash(P) (no RGB or RGBA chunk).
C4_CacheFidelity ==
    [][\A pixel \in Palette :
          LET p == RGBA_from(pixel)
          IN  (/\ Stepped(pixel)
               /\ p # LastInput
               /\ \E i \in 1 .. Len(pixels) : RGBA_from(pixels[i]) = p
               /\ NoCollisionSince(p))
              => (/\ Len(chunks') = Len(chunks) + 1
                  /\ SubSeq(chunks', 1, Len(chunks)) = chunks
                  /\ chunks'[Len(chunks')].op = "Index"
                  /\ chunks'[Len(chunks')].index = Bucket(p))]_vars

\* C4 witness: a colour that was stored earlier has come back after another
\* colour and got an Index chunk.
C4_Witness ==
    /\ Len(pixels) >= 3
    /\ chunks # <<>>
    /\ chunks[Len(chunks)].op = "Index"
    /\ LastInput # RGBA_new
    /\ \E i \in 1 .. Len(setlog) : setlog[i] = LastInput
    /\ RGBA_from(pixels[Len(pixels) - 1]) # LastInput
    /\ NoCollisionSince(LastInput)

\* a - b as a signed 8-bit difference, in -128..127
Signed8(x) == ((x + 128) % 256) - 128

\* The chunk kind the delta rules ask for, for pixel p after pixel q of the same alpha.
DeltaKind(p, q) ==
    LET dr == Signed8(p.r - q.r)
        dg == Signed8(p.g - q.g)
        db == Signed8(p.b - q.b)
    IN  IF dr \in -2 .. 1 /\ dg \in -2 .. 1 /\ db \in -2 .. 1 THEN "Diff"
        ELSE IF dg \in -32 .. 31 /\ Signed8(dr - dg) \in -8 .. 7 /\ Signed8(db - dg) \in -8 .. 7
        THEN "Luma"
        ELSE "RGB"

\* C5 (as claimed): a step for a pixel that differs from the previous pixel in
\* colour only (same alpha) and misses the cache (slot hash(p) does not hold p)
\* appends a Diff chunk when dr, dg, db all lie in -2..1, else a Luma chunk when
\* dg lies in -32..31 and dr-dg, db-dg in -8..7, else an RGB chunk.
C5_DeltaBoundaries ==
    [][\A pixel \in Palette :
          LET p == RGBA_from(pixel)
          IN  (/\ Stepped(pixel)
               /\ p # LastInput
               /\ p.a = LastInput.a
               /\ encountered[Bucket(p)] # p)
              => (/\ Len(chunks') = Len(chunks) + 1
                  /\ chunks'[Len(chunks')].op = DeltaKind(p, LastInput))]_vars

\* C6 (as claimed): a step for a pixel whose alpha differs from the previous
\* pixel's alpha appends an RGBA chunk.
C6_AlphaForcesRGBA ==
    [][\A pixel \in Palette :
          LET p == RGBA_from(pixel)
          IN  (Stepped(pixel) /\ p.a # LastInput.a)
              => (/\ Len(chunks') = Len(chunks) + 1
                  /\ chunks'[Len(chunks')].op = "RGBA")]_vars

\* C6 (amended): a step for a pixel whose alpha differs from the previous pixel's
\* alpha and which Encountered::contains does not find appends an RGBA chunk.
C6_AlphaMissRGBA ==
    [][\A pixel \in Palette :
          LET p == RGBA_from(pixel)
          IN  (/\ Stepped(pixel)
               /\ p.a # LastInput.a
               /\ ~Encountered_contains(encountered, p))
              => (/\ Len(chunks') = Len(chunks) + 1
                  /\ SubSeq(chunks', 1, Len(chunks)) = chunks
                  /\ chunks'[Len(chunks')].op = "RGBA")]_vars

\* C6 witness: the last pixel changed the alpha and got an RGBA chunk.
C6_Witness ==
    /\ Len(pixels) >= 2
    /\ LastInput.a # RGBA_from(pixels[Len(pixels) - 1]).a
    /\ chunks # <<>>
    /\ chunks[Len(chunks)].op = "RGBA"
    /\ chunks[Len(chunks)].alpha = LastInput.a

\* C7: once the loop has consumed the 12-word array of main(), the chunk list is
\* exactly: an RGBA chunk of (175,175,175,255), a Run of 2, an RGBA chunk of
\* (175,175,170,255), an Index chunk of the first colour's bucket (or an RGBA chunk
\* of the first colour), and a Run of 7.
C7_Example ==
    pixels = ExamplePixels =>
        /\ Len(chunks) = 5
        /\ chunks[1] = [op |-> "RGBA", tag |-> "B11111111",
                        red |-> 175, green |-> 175, blue |-> 175, alpha |-> 255]
        /\ chunks[2].op = "Run" /\ chunks[2].run = 2
        /\ chunks[3] = [op |-> "RGBA", tag |-> "B11111111",
                        red |-> 175, green |-> 175, blue |-> 170, alpha |-> 255]
        /\ \/ chunks[4].op = "Index" /\ chunks[4].index = Bucket(RGBA(175, 175, 175, 255))
           \/ chunks[4] = chunks[1]
        /\ chunks[5].op = "Run" /\ chunks[5].run = 7

\* C7 witness: the loop has consumed the whole array of main().
C7_Witness == pixels = ExamplePixels /\ Len(chunks) = 5 /\ ~panicked

\* The colour Encountered::set stored last among those of bucket i (the default
\* pixel when none was stored).
LastStored(i) ==
    LET at == {k \in 1 .. Len(setlog) : Bucket(setlog[k]) = i}
    IN  IF at = {} THEN RGBA_new ELSE setlog[Max(at)]

\* C8: every cache slot i holds the colour stored last among those whose hash is
\* i, or the default pixel when none was; so a slot that differs from the default
\* pixel holds a colour whose hash is the slot's index.
C8_CacheInvariant ==
    \A i \in 0 .. 63 :
        /\ encountered[i] = LastStored(i)
        /\ encountered[i] # RGBA_new => Bucket(encountered[i]) = i

\* C8 witness: a colour stored in bucket 53 has been overwritten by another
\* colour of bucket 53.
C8_Witness ==
    /\ encountered[53] # RGBA_new
    /\ \E k \in 1 .. Len(setlog) : Bucket(setlog[k]) = 53 /\ setlog[k] # encountered[53]

\* C9: for every pixel consumed, RGBA::hash is (r*3 + g*5 + b*7 + a*11) mod 64
\* over unbounded integers and lies in 0..63; the colour stored last sits in the
\* slot of that bucket, and every Index chunk carries the bucket of a consumed
\* pixel, in 0..63.
C9_Hash ==
    /\ \A i \in 1 .. Len(pixels) :
          LET p == RGBA_from(pixels[i])
          IN  hash(p) = Bucket(p) /\ hash(p) \in 0 .. 63
    /\ setlog # <<>> => encountered[Bucket(setlog[Len(setlog)])] = setlog[Len(setlog)]
    /\ \A k \in 1 .. Len(chunks) :
          chunks[k].op = "Index" =>
              /\ chunks[k].index \in 0 .. 63
              /\ \E i \in 1 .. Len(pixels) : chunks[k].index = Bucket(RGBA_from(pixels[i]))

\* C9 witness: an Index chunk was emitted, and a pixel whose weighted channel sum
\* exceeds 8 bits was hashed and stored.
C9_Witness ==
    /\ \E k \in 1 .. Len(chunks) : chunks[k].op = "Index"
    /\ \E k \in 1 .. Len(setlog) :
          setlog[k].r * 3 + setlog[k].g * 5 + setlog[k].b * 7 + setlog[k].a * 11 > 255

\* C10: the previous pixel is the default pixel before the first input pixel, and
\* afterwards the last input pixel consumed, whichever branch handled it.
C10_Previous ==
    /\ pixels = <<>> => previous = RGBA(0, 0, 0, 255)
    /\ pixels # <<>> => previous = RGBA_from(pixels[Len(pixels)])

\* C10 witness: the three branches have each handled a pixel, the index branch last.
C10_Witness ==
    /\ Len(chunks) >= 3
    /\ chunks[Len(chunks)].op = "Index"
    /\ \E k \in 1 .. Len(chunks) : chunks[k].op = "Run"
    /\ \E k \in 1 .. Len(chunks) : chunks[k].op = "RGBA"
    /\ previous = LastInput

\* The number of pixels a chunk list stands for: a Run chunk its length, any
\* other chunk one pixel.
RECURSIVE PixelsCounted(_)
PixelsCounted(list) ==
    IF list = <<>> THEN 0
    ELSE (IF list[1].op = "Run" THEN list[1].run ELSE 1) + PixelsCounted(Tail(list))

\* C11 (as claimed): every pixel consumed is counted, a repeat of the previous
\* pixel in a Run chunk and any other pixel by its own chunk: after n pixels the
\* Run lengths plus the number of other chunks sum to n.
C11_RunCountsEveryPixel == PixelsCounted(chunks) = Len(pixels)

\* C12 (as claimed): a step that appends an Index chunk with bucket i for a pixel
\* P finds P in cache slot i at that moment.
C12_IndexSound ==
    [][\A pixel \in Palette :
          (/\ Stepped(pixel)
           /\ Len(chunks') = Len(chunks) + 1
           /\ chunks'[Len(chunks')].op = "Index")
          => encountered[chunks'[Len(chunks')].index] = RGBA_from(pixel)]_vars

\* C13: a step through the run branch leaves the 64 cache slots and the previous
\* pixel unchanged; a step through the index-hit branch leaves the 64 slots
\* unchanged; a step through the cache-miss branch makes slot hash(pixel) the
\* pixel and leaves the other 63 slots unchanged.
C13_CacheFrame ==
    [][\A pixel \in Palette :
          LET p == RGBA_from(pixel)
          IN  Stepped(pixel) =>
                IF p = LastInput
                THEN encountered' = encountered /\ previous' = previous
                ELSE IF Encountered_contains(encountered, p)
                THEN encountered' = encountered
                ELSE /\ encountered'[Bucket(p)] = p
                     /\ \A i \in 0 .. 63 : i # Bucket(p) => encountered'[i] = encountered[i]]_vars

\* C13 witness: the three branches have each handled a pixel, and a cache miss
\* has overwritten a slot that was in use.
C13_Witness ==
    /\ \E k \in 1 .. Len(chunks) : chunks[k].op = "Run"
    /\ \E k \in 1 .. Len(chunks) : chunks[k].op = "Index"
    /\ \E j, k \in 1 .. Len(setlog) :
          j < k /\ setlog[j] # setlog[k] /\ Bucket(setlog[j]) = Bucket(setlog[k])

\* C14: a step that appends an RGBA chunk appends the four channel bytes of the
\* pixel it consumed, and right after it cache slot hash(pixel) and the previous
\* pixel both equal that pixel.
C14_RawRGBA ==
    [][\A pixel \in Palette :
          LET p == RGBA_from(pixel)
          IN  (/\ Stepped(pixel)
               /\ Len(chunks') = Len(chunks) + 1
               /\ chunks'[Len(chunks')].op = "RGBA")
              => (/\ chunks'[Len(chunks')].red = p.r
                  /\ chunks'[Len(chunks')].green = p.g
                  /\ chunks'[Len(chunks')].blue = p.b
                  /\ chunks'[Len(chunks')].alpha = p.a
                  /\ encountered'[Bucket(p)] = p
                  /\ previous' = p)]_vars

\* C14 witness: the last pixel, with unequal channels, got an RGBA chunk.
C14_Witness ==
    /\ chunks # <<>>
    /\ chunks[Len(chunks)].op = "RGBA"
    /\ LastInput.r # LastInput.b
    /\ chunks[Len(chunks)].red = LastInput.r
    /\ encountered[Bucket(LastInput)] = LastInput

\* C15: in every step the chunk list stays as it is, or gets one chunk appended
\* at its end, or keeps its length and has the run of its last chunk, a Run chunk,
\* incremented (as an 8-bit increment); no chunk is removed, moved or otherwise
\* altered.  So a pending Run chunk stays right before the chunk of the first
\* differing pixel, and a later chunk stands for later pixels.
C15_EncounterOrder ==
    [][\/ chunks' = chunks
       \/ /\ Len(chunks') = Len(chunks) + 1
          /\ SubSeq(chunks', 1, Len(chunks)) = chunks
          /\ chunks'[Len(chunks')].op = "Run" =>
                chunks'[Len(chunks')].run = 1 /\ RGBA_from(pixels'[Len(pixels')]) = LastInput
          /\ chunks'[Len(chunks')].op # "Run" => RGBA_from(pixels'[Len(pixels')]) # LastInput
       \/ /\ Len(chunks') = Len(chunks)
          /\ chunks # <<>>
          /\ chunks[Len(chunks)].op = "Run"
          /\ chunks' = [chunks EXCEPT ![Len(chunks)].run = (@ + 1) % 256]
          /\ RGBA_from(pixels'[Len(pixels')]) = LastInput]_vars

\* C15 witness: a Run chunk that was incremented is followed by the chunk of the
\* first differing pixel, and a new Run was started after that.
C15_Witness ==
    /\ Len(chunks) >= 4
    /\ chunks[2].op = "Run" /\ chunks[2].run >= 2
    /\ chunks[3].op # "Run"
    /\ chunks[4].op = "Run"

\* C16 (as claimed): the loop consumes every pixel without aborting, and the run
\* field of the last Run chunk equals the number of pixels the run at the end of
\* the input stands for (it never passes 255 and wraps).
C16_NoOverflow ==
    /\ ~panicked
    /\ (chunks # <<>> /\ chunks[Len(chunks)].op = "Run") =>
          /\ chunks[Len(chunks)].run <= 255
          /\ chunks[Len(chunks)].run = TrailingRun

====
